---------------------------- MODULE Spec2Model ----------------------------
(***************************************************************************)
(* A model of src/main.rs: the word-operator calculator.  One input line   *)
(* goes through Lexer::get_tokens, Parser::parse and                       *)
(* Interpreter::interpret inside the loop of main.                         *)
(*                                                                         *)
(* Characters are modelled as one-character strings; the two non-ASCII     *)
(* characters of the model are named by their code points.  A String is a  *)
(* sequence of characters; its byte length (String::len) is the sum of the *)
(* UTF-8 widths of its characters.  f64 values are modelled as signed      *)
(* rationals with a signed zero, the two infinities and NaN; rounding to   *)
(* 53 bits is not modelled.  A panic is modelled as a result record whose  *)
(* panic field names the panic.                                            *)
(***************************************************************************)
EXTENDS Integers, Sequences, FiniteSets

(***************************************************************************)
(* Bounds of the model.                                                    *)
(***************************************************************************)
\* longest raw line drawn character by character
MaxLen == 3
\* longest line drawn token by token (lexemes joined by one space)
MaxToks == 4
\* most operands of a parenthesis-free operator chain
MaxChain == 4

(***************************************************************************)
(* Characters.                                                             *)
(***************************************************************************)
EAcute == "U+00E9"
ArabicThree == "U+0663"
NoChar == "None"

AsciiDigits == {"0", "1", "2", "3", "4", "5", "6", "7", "8", "9"}
Letters == {"p", "l", "u", "s", "m", "i", "n", "d", "v"}

\* the range pattern '0'..='9' | '.'
IsNumberStart(c) == c \in AsciiDigits \/ c = "."
\* the pattern ' ' | '\t' | '\n' | '\r'
IsLexerWhitespace(c) == c \in {" ", "\t", "\n", "\r"}
\* char::is_numeric
IsNumeric(c) == c \in AsciiDigits \/ c = ArabicThree
\* char::is_alphabetic
IsAlphabetic(c) == c \in Letters \/ c = EAcute
\* char::is_alphanumeric
IsAlphanumeric(c) == IsAlphabetic(c) \/ IsNumeric(c)
\* char::is_whitespace, as str::trim uses it
IsWhitespace(c) == c \in {" ", "\t", "\n", "\r"}
\* number of bytes of the UTF-8 encoding of a character
Utf8Len(c) == IF c \in {EAcute, ArabicThree} THEN 2 ELSE 1

RECURSIVE ByteOffset(_, _)
\* byte offset at which the k-th character (0-based) of s starts
ByteOffset(s, k) ==
    IF k = 0 THEN 0 ELSE ByteOffset(s, k - 1) + Utf8Len(s[k])

\* String::len: the length in bytes
ByteLen(s) == ByteOffset(s, Len(s))

\* s.chars().nth(i): the character at character index i, if any
CharsNth(s, i) == IF i < Len(s) THEN s[i + 1] ELSE NoChar

NotABoundary == -1

RECURSIVE CharIndexAt(_, _, _, _)
\* the index of the character that starts at byte offset b, found walking
\* from character k at offset off; NotABoundary when b falls inside a
\* character or beyond the end (str::is_char_boundary is false)
CharIndexAt(s, b, k, off) ==
    IF off = b THEN k
    ELSE IF off > b \/ k >= Len(s) THEN NotABoundary
    ELSE CharIndexAt(s, b, k + 1, off + Utf8Len(s[k + 1]))

\* &s[from..to], a slice by byte offsets; panics off a character boundary
ByteSlice(s, from, to) ==
    LET kf == CharIndexAt(s, from, 0, 0)
        kt == CharIndexAt(s, to, 0, 0)
    IN  IF from <= to /\ kf # NotABoundary /\ kt # NotABoundary
        THEN [err |-> "", str |-> SubSeq(s, kf + 1, kt)]
        ELSE [err |-> "SliceNotCharBoundary", str |-> <<>>]

RECURSIVE TrimStart(_)
TrimStart(s) ==
    IF s # <<>> /\ IsWhitespace(Head(s)) THEN TrimStart(Tail(s)) ELSE s

RECURSIVE TrimEnd(_)
TrimEnd(s) ==
    IF s # <<>> /\ IsWhitespace(s[Len(s)])
    THEN TrimEnd(SubSeq(s, 1, Len(s) - 1)) ELSE s

\* str::trim
Trim(s) == TrimEnd(TrimStart(s))

(***************************************************************************)
(* f64 values.                                                             *)
(***************************************************************************)
RECURSIVE Gcd(_, _)
Gcd(a, b) == IF b = 0 THEN a ELSE Gcd(b, a % b)

\* a finite value (-1)^neg * n/d in lowest terms; n = 0 is a signed zero
Fin(neg, n, d) ==
    LET g == Gcd(n, d)
    IN  [k |-> "fin", neg |-> neg, n |-> n \div g, d |-> d \div g]
Inf(neg) == [k |-> "inf", neg |-> neg, n |-> 0, d |-> 1]
NaN == [k |-> "nan", neg |-> FALSE, n |-> 0, d |-> 1]
Num(i) == Fin(FALSE, i, 1)

Negate(x) == IF x.k = "nan" THEN x ELSE [x EXCEPT !.neg = ~x.neg]
IsZero(x) == x.k = "fin" /\ x.n = 0

\* left_val + right_val
FAdd(x, y) ==
    IF x.k = "nan" \/ y.k = "nan" THEN NaN
    ELSE IF x.k = "inf" /\ y.k = "inf"
         THEN (IF x.neg = y.neg THEN x ELSE NaN)
    ELSE IF x.k = "inf" THEN x
    ELSE IF y.k = "inf" THEN y
    ELSE LET a == (IF x.neg THEN -1 ELSE 1) * x.n * y.d
             b == (IF y.neg THEN -1 ELSE 1) * y.n * x.d
             s == a + b
         IN  IF s = 0 THEN Fin(x.neg /\ y.neg, 0, 1)
             ELSE IF s < 0 THEN Fin(TRUE, -s, x.d * y.d)
             ELSE Fin(FALSE, s, x.d * y.d)

\* left_val - right_val
FSub(x, y) == FAdd(x, Negate(y))

\* left_val * right_val
FMul(x, y) ==
    IF x.k = "nan" \/ y.k = "nan" THEN NaN
    ELSE IF (x.k = "inf" /\ IsZero(y)) \/ (IsZero(x) /\ y.k = "inf") THEN NaN
    ELSE IF x.k = "inf" \/ y.k = "inf" THEN Inf(x.neg # y.neg)
    ELSE Fin(x.neg # y.neg, x.n * y.n, x.d * y.d)

\* left_val / right_val
FDiv(x, y) ==
    IF x.k = "nan" \/ y.k = "nan" THEN NaN
    ELSE IF (x.k = "inf" /\ y.k = "inf") \/ (IsZero(x) /\ IsZero(y)) THEN NaN
    ELSE IF x.k = "inf" \/ IsZero(y) THEN Inf(x.neg # y.neg)
    ELSE IF y.k = "inf" THEN Fin(x.neg # y.neg, 0, 1)
    ELSE Fin(x.neg # y.neg, x.n * y.d, x.d * y.n)

(***************************************************************************)
(* Tokens, AST nodes and panics.                                           *)
(***************************************************************************)
Number(v) == [kind |-> "Number", value |-> v]
Plus == [kind |-> "Plus"]
Minus == [kind |-> "Minus"]
Mul == [kind |-> "Mul"]
Div == [kind |-> "Div"]
LParen == [kind |-> "LParen"]
RParen == [kind |-> "RParen"]
EOF == [kind |-> "EOF"]

NumberNode(v) == [tag |-> "Number", value |-> v]
BinaryOp(left, op, right) ==
    [tag |-> "BinaryOp", left |-> left, op |-> op, right |-> right]
NoNode == [tag |-> "None"]

NoPanic == [kind |-> "none"]
\* panic!("Unexpected character: {}", c)
UnexpectedCharacter(c) == [kind |-> "UnexpectedCharacter", found |-> c]
\* panic!("Unexpected identifier: {}", ident)
UnexpectedIdentifier(ident) == [kind |-> "UnexpectedIdentifier", found |-> ident]
\* number_str.parse::<f64>().unwrap() on an Err(ParseFloatError)
ParseFloatError(str) == [kind |-> "ParseFloatError", found |-> str]
\* Option::unwrap() on a None value
UnwrapNone == [kind |-> "UnwrapNone"]
\* byte index is not a char boundary
SliceNotCharBoundary == [kind |-> "SliceNotCharBoundary"]
\* panic!("Unexpected token: {:?}", self.current_token())
UnexpectedToken(t) == [kind |-> "UnexpectedToken", found |-> t]
\* panic!("Expected {:?}, found {:?}", expected, self.current_token())
ExpectedFound(expected, t) ==
    [kind |-> "Expected", expected |-> expected, found |-> t]
\* index out of bounds: the len is .. but the index is ..
IndexOutOfBounds == [kind |-> "IndexOutOfBounds"]
\* unreachable!()
Unreachable == [kind |-> "Unreachable"]

(***************************************************************************)
(* Lexer.                                                                  *)
(***************************************************************************)
\* Lexer::new; len is input.len(), the byte length the String stores
LexerNew(input) ==
    [panic |-> NoPanic, position |-> 0, current_char |-> CharsNth(input, 0),
     len |-> ByteLen(input)]

\* Lexer::advance: position counts characters, input.len() counts bytes
LexerAdvance(input, lx) ==
    LET p == lx.position + 1
    IN  IF p < lx.len
        THEN IF CharsNth(input, p) = NoChar
             THEN [lx EXCEPT !.panic = UnwrapNone, !.position = p,
                             !.current_char = NoChar]
             ELSE [lx EXCEPT !.position = p,
                             !.current_char = CharsNth(input, p)]
        ELSE [lx EXCEPT !.position = p, !.current_char = NoChar]

DigitVal(c) ==
    CASE c = "0" -> 0 [] c = "1" -> 1 [] c = "2" -> 2 [] c = "3" -> 3
      [] c = "4" -> 4 [] c = "5" -> 5 [] c = "6" -> 6 [] c = "7" -> 7
      [] c = "8" -> 8 [] c = "9" -> 9

RECURSIVE DecimalNat(_, _)
\* the digits of str read as a decimal natural, the '.' skipped
DecimalNat(str, acc) ==
    IF str = <<>> THEN acc
    ELSE IF Head(str) = "." THEN DecimalNat(Tail(str), acc)
    ELSE DecimalNat(Tail(str), 10 * acc + DigitVal(Head(str)))

RECURSIVE Pow10(_)
Pow10(k) == IF k = 0 THEN 1 ELSE 10 * Pow10(k - 1)

\* str::parse::<f64> on a run of digits and '.': digits with at most one
\* '.', and at least one digit
ParseF64(str) ==
    LET dots == {i \in 1..Len(str) : str[i] = "."}
        digits == {i \in 1..Len(str) : str[i] \in AsciiDigits}
    IN  IF /\ Cardinality(dots) + Cardinality(digits) = Len(str)
           /\ Cardinality(dots) <= 1
           /\ Cardinality(digits) >= 1
        THEN LET frac == IF dots = {} THEN 0
                         ELSE Len(str) - (CHOOSE i \in dots : TRUE)
             IN  [panic |-> NoPanic,
                  value |-> Fin(FALSE, DecimalNat(str, 0), Pow10(frac))]
        ELSE [panic |-> ParseFloatError(str), value |-> NaN]

RECURSIVE NumberScan(_, _)
\* the while loop of Lexer::number
NumberScan(input, lx) ==
    IF /\ lx.current_char # NoChar
       /\ (IsNumeric(lx.current_char) \/ lx.current_char = ".")
    THEN LET a == LexerAdvance(input, lx)
         IN  IF a.panic.kind # "none" THEN a ELSE NumberScan(input, a)
    ELSE lx

\* Lexer::number
LexNumber(input, lx) ==
    LET start_pos == lx.position
        e == NumberScan(input, lx)
        sl == ByteSlice(input, start_pos, e.position)
        v == ParseF64(sl.str)
    IN  IF e.panic.kind # "none"
        THEN [panic |-> e.panic, lexer |-> e, token |-> EOF]
        ELSE IF sl.err # ""
        THEN [panic |-> SliceNotCharBoundary, lexer |-> e, token |-> EOF]
        ELSE IF v.panic.kind # "none"
        THEN [panic |-> v.panic, lexer |-> e, token |-> EOF]
        ELSE [panic |-> NoPanic, lexer |-> e, token |-> Number(v.value)]

RECURSIVE IdentifierScan(_, _)
\* the while loop of Lexer::identifier
IdentifierScan(input, lx) ==
    IF lx.current_char # NoChar /\ IsAlphanumeric(lx.current_char)
    THEN LET a == LexerAdvance(input, lx)
         IN  IF a.panic.kind # "none" THEN a ELSE IdentifierScan(input, a)
    ELSE lx

\* the match on ident.as_str()
Keyword(ident) ==
    CASE ident = <<"p", "l", "u", "s">> -> [panic |-> NoPanic, token |-> Plus]
      [] ident = <<"m", "i", "n", "u", "s">> ->
             [panic |-> NoPanic, token |-> Minus]
      [] ident = <<"m", "u", "l">> -> [panic |-> NoPanic, token |-> Mul]
      [] ident = <<"d", "i", "v">> -> [panic |-> NoPanic, token |-> Div]
      [] OTHER -> [panic |-> UnexpectedIdentifier(ident), token |-> EOF]

\* Lexer::identifier
LexIdentifier(input, lx) ==
    LET start_pos == lx.position
        e == IdentifierScan(input, lx)
        sl == ByteSlice(input, start_pos, e.position)
        kw == Keyword(sl.str)
    IN  IF e.panic.kind # "none"
        THEN [panic |-> e.panic, lexer |-> e, token |-> EOF]
        ELSE IF sl.err # ""
        THEN [panic |-> SliceNotCharBoundary, lexer |-> e, token |-> EOF]
        ELSE [panic |-> kw.panic, lexer |-> e, token |-> kw.token]

\* faulty variant of PushEOF: the end-of-input token is forgotten
PushNothing(tokens) == tokens

\* tokens.push(Token::EOF) after the scan
PushEOF(tokens) == Append(tokens, EOF)

RECURSIVE ScanTokens(_, _, _)
\* the while loop of Lexer::get_tokens and the push that follows it
ScanTokens(input, lx, tokens) ==
    LET c == lx.current_char
    IN  IF c = NoChar THEN [panic |-> NoPanic, tokens |-> PushEOF(tokens)]
        ELSE IF IsNumberStart(c)
        THEN LET r == LexNumber(input, lx)
             IN  IF r.panic.kind # "none"
                 THEN [panic |-> r.panic, tokens |-> tokens]
                 ELSE ScanTokens(input, r.lexer, Append(tokens, r.token))
        ELSE IF IsLexerWhitespace(c)
        THEN LET a == LexerAdvance(input, lx)
             IN  IF a.panic.kind # "none"
                 THEN [panic |-> a.panic, tokens |-> tokens]
                 ELSE ScanTokens(input, a, tokens)
        ELSE IF c = "(" \/ c = ")"
        THEN LET a == LexerAdvance(input, lx)
                 t == IF c = "(" THEN LParen ELSE RParen
             IN  IF a.panic.kind # "none"
                 THEN [panic |-> a.panic, tokens |-> tokens]
                 ELSE ScanTokens(input, a, Append(tokens, t))
        ELSE IF IsAlphabetic(c)
        THEN LET r == LexIdentifier(input, lx)
             IN  IF r.panic.kind # "none"
                 THEN [panic |-> r.panic, tokens |-> tokens]
                 ELSE ScanTokens(input, r.lexer, Append(tokens, r.token))
        ELSE [panic |-> UnexpectedCharacter(c), tokens |-> tokens]

\* Lexer::new followed by Lexer::get_tokens
GetTokens(input) == ScanTokens(input, LexerNew(input), <<>>)

(***************************************************************************)
(* Parser.  position is the 0-based index into tokens, as in the source.   *)
(***************************************************************************)
OutOfBounds == [kind |-> "OutOfBounds"]

\* Parser::current_token: &self.tokens[self.position]
CurrentToken(tokens, position) ==
    IF position < Len(tokens) THEN tokens[position + 1] ELSE OutOfBounds

\* faulty variant of IsAdditive: a right parenthesis is taken for an operator
IsAdditiveOrRParen(t) == t.kind \in {"Plus", "Minus", "RParen"}
\* faulty variant of IsMultiplicative: the factor loop folds every operator
IsAnyOperator(t) == t.kind \in {"Plus", "Minus", "Mul", "Div"}

\* the pattern Token::Plus | Token::Minus
IsAdditive(t) == t.kind \in {"Plus", "Minus"}
\* the pattern Token::Mul | Token::Div
IsMultiplicative(t) == t.kind \in {"Mul", "Div"}

Failed(p, position) == [panic |-> p, node |-> NoNode, position |-> position]
Parsed(node, position) ==
    [panic |-> NoPanic, node |-> node, position |-> position]

\* faulty variant of Expect: the token is consumed without being compared
ExpectAlwaysAdvances(tokens, position, expected) ==
    LET t == CurrentToken(tokens, position)
    IN  IF t = OutOfBounds THEN Failed(IndexOutOfBounds, position)
        ELSE Parsed(NoNode, position + 1)

\* Parser::expect
Expect(tokens, position, expected) ==
    LET t == CurrentToken(tokens, position)
    IN  IF t = OutOfBounds THEN Failed(IndexOutOfBounds, position)
        ELSE IF t = expected THEN Parsed(NoNode, position + 1)
        ELSE Failed(ExpectedFound(expected, t), position)

RECURSIVE Expression(_, _)

\* faulty variant of Primary: the closing parenthesis is not asked for
PrimaryNoExpect(tokens, position) ==
    LET t == CurrentToken(tokens, position)
    IN  IF t = OutOfBounds THEN Failed(IndexOutOfBounds, position)
        ELSE IF t.kind = "Number"
        THEN Parsed(NumberNode(t.value), position + 1)
        ELSE IF t.kind = "LParen"
        THEN Expression(tokens, position + 1)
        ELSE Failed(UnexpectedToken(t), position)

\* Parser::primary
Primary(tokens, position) ==
    LET t == CurrentToken(tokens, position)
    IN  IF t = OutOfBounds THEN Failed(IndexOutOfBounds, position)
        ELSE IF t.kind = "Number"
        THEN Parsed(NumberNode(t.value), position + 1)
        ELSE IF t.kind = "LParen"
        THEN LET e == Expression(tokens, position + 1)
                 x == Expect(tokens, e.position, RParen)
             IN  IF e.panic.kind # "none" THEN e
                 ELSE IF x.panic.kind # "none" THEN x
                 ELSE Parsed(e.node, x.position)
        ELSE Failed(UnexpectedToken(t), position)

RECURSIVE FactorLoop(_, _, _)
\* the while loop of Parser::factor
FactorLoop(tokens, node, position) ==
    LET t == CurrentToken(tokens, position)
    IN  IF t = OutOfBounds THEN Failed(IndexOutOfBounds, position)
        ELSE IF IsMultiplicative(t)
        THEN LET r == Primary(tokens, position + 1)
             IN  IF r.panic.kind # "none" THEN r
                 ELSE FactorLoop(tokens, BinaryOp(node, t, r.node), r.position)
        ELSE Parsed(node, position)

\* Parser::factor
Factor(tokens, position) ==
    LET p == Primary(tokens, position)
    IN  IF p.panic.kind # "none" THEN p
        ELSE FactorLoop(tokens, p.node, p.position)

RECURSIVE TermLoopRight(_, _, _)
\* faulty variant of TermLoop: the rest of the chain becomes the right operand
TermLoopRight(tokens, node, position) ==
    LET t == CurrentToken(tokens, position)
    IN  IF t = OutOfBounds THEN Failed(IndexOutOfBounds, position)
        ELSE IF IsAdditive(t)
        THEN LET r == Factor(tokens, position + 1)
                 rest == TermLoopRight(tokens, r.node, r.position)
             IN  IF r.panic.kind # "none" THEN r
                 ELSE IF rest.panic.kind # "none" THEN rest
                 ELSE Parsed(BinaryOp(node, t, rest.node), rest.position)
        ELSE Parsed(node, position)

RECURSIVE TermLoop(_, _, _)
\* the while loop of Parser::term
TermLoop(tokens, node, position) ==
    LET t == CurrentToken(tokens, position)
    IN  IF t = OutOfBounds THEN Failed(IndexOutOfBounds, position)
        ELSE IF IsAdditive(t)
        THEN LET r == Factor(tokens, position + 1)
             IN  IF r.panic.kind # "none" THEN r
                 ELSE TermLoop(tokens, BinaryOp(node, t, r.node), r.position)
        ELSE Parsed(node, position)

\* Parser::term
Term(tokens, position) ==
    LET f == Factor(tokens, position)
    IN  IF f.panic.kind # "none" THEN f
        ELSE TermLoop(tokens, f.node, f.position)

\* Parser::expression
Expression(tokens, position) == Term(tokens, position)

\* faulty variant of Parse: the end-of-input token must follow the expression
ParseStrict(tokens) ==
    LET e == Expression(tokens, 0)
        t == CurrentToken(tokens, e.position)
    IN  IF e.panic.kind # "none" THEN e
        ELSE IF t = OutOfBounds THEN Failed(IndexOutOfBounds, e.position)
        ELSE IF t # EOF THEN Failed(ExpectedFound(EOF, t), e.position)
        ELSE e

\* Parser::new followed by Parser::parse
Parse(tokens) == Expression(tokens, 0)

(***************************************************************************)
(* Interpreter.                                                            *)
(***************************************************************************)
\* the match on op in Interpreter::interpret
ApplyOp(op, left_val, right_val) ==
    CASE op.kind = "Plus" -> [panic |-> NoPanic, value |-> FAdd(left_val, right_val)]
      [] op.kind = "Minus" -> [panic |-> NoPanic, value |-> FSub(left_val, right_val)]
      [] op.kind = "Mul" -> [panic |-> NoPanic, value |-> FMul(left_val, right_val)]
      [] op.kind = "Div" -> [panic |-> NoPanic, value |-> FDiv(left_val, right_val)]
      [] OTHER -> [panic |-> Unreachable, value |-> NaN]

RECURSIVE Interpret(_)
\* Interpreter::interpret
Interpret(node) ==
    IF node.tag = "Number" THEN [panic |-> NoPanic, value |-> node.value]
    ELSE LET l == Interpret(node.left)
             r == Interpret(node.right)
         IN  IF l.panic.kind # "none" THEN l
             ELSE IF r.panic.kind # "none" THEN r
             ELSE ApplyOp(node.op, l.value, r.value)

(***************************************************************************)
(* The lines standard input may hold.                                      *)
(***************************************************************************)
CharAlphabet ==
    {"0", "3", ".", " ", "(", ")", "m", "u", "l", "@", EAcute, ArabicThree}

PlusWord == <<"p", "l", "u", "s">>
MinusWord == <<"m", "i", "n", "u", "s">>
MulWord == <<"m", "u", "l">>
DivWord == <<"d", "i", "v">>
OpWords == {PlusWord, MinusWord, MulWord, DivWord}
TokLexemes == {PlusWord, DivWord, <<"0">>, <<"3">>, <<"(">>, <<")">>}
ChainOperands == {<<"3">>, <<"4">>}
ExampleOperands == {<<"2">>, <<"3">>, <<"4">>, <<"1", "0">>}

SeqsUpTo(S, lo, hi) == UNION {[1..n -> S] : n \in lo..hi}

RECURSIVE Join(_)
\* the lexemes of ls, one space between neighbours
Join(ls) ==
    IF Len(ls) = 0 THEN <<>>
    ELSE IF Len(ls) = 1 THEN ls[1]
    ELSE ls[1] \o <<" ">> \o Join(Tail(ls))

\* x1 o1 x2 ... o(n-1) xn
Interleave(xs, os) ==
    [i \in 1..(2 * Len(xs) - 1) |->
        IF i % 2 = 1 THEN xs[(i + 1) \div 2] ELSE os[i \div 2]]

\* every string of at most MaxLen characters of CharAlphabet
CharLines == SeqsUpTo(CharAlphabet, 0, MaxLen)
\* every sequence of at most MaxToks lexemes
TokLines == {Join(ls) : ls \in SeqsUpTo(TokLexemes, 1, MaxToks)}
\* every operator chain of at most MaxChain operands
ChainLines ==
    UNION {{Join(Interleave(xs, os)) :
               xs \in [1..n -> ChainOperands], os \in [1..(n - 1) -> OpWords]} :
           n \in 2..MaxChain}
\* a o1 b o2 c, (a o1 b) o2 c and a o1 (b o2 c)
TripleLines ==
    UNION {{Join(<<a, o1, b, o2, c>>),
            Join(<<<<"(">>, a, o1, b, <<")">>, o2, c>>),
            Join(<<a, o1, <<"(">>, b, o2, c, <<")">>>>)} :
           a \in ExampleOperands, b \in ExampleOperands,
           c \in ExampleOperands, o1 \in OpWords, o2 \in OpWords}

Lines == CharLines \cup TokLines \cup ChainLines \cup TripleLines

(***************************************************************************)
(* main.                                                                   *)
(***************************************************************************)
VARIABLES
    pc,         \* where main is: "prompt", "lex", "parse", "interpret",
                \* "print" or "panicked"
    stdinEOF,   \* read_line has returned Ok(0)
    input,      \* the trimmed line
    tokens,     \* what get_tokens returned for it
    ast,        \* what parse returned for tokens
    parserPos,  \* Parser.position when parse returned or panicked
    result,     \* what interpret returned for ast
    panic,      \* the panic that ended the process
    failedIn    \* the stage that panicked

vars ==
    <<pc, stdinEOF, input, tokens, ast, parserPos, result, panic, failedIn>>

NoResult == [k |-> "none"]

Init ==
    /\ pc = "prompt"
    /\ stdinEOF = FALSE
    /\ input = <<>>
    /\ tokens = <<>>
    /\ ast = NoNode
    /\ parserPos = 0
    /\ result = NoResult
    /\ panic = NoPanic
    /\ failedIn = "none"

\* read_line returns a line; main trims it and skips the empty ones
ReadLine ==
    /\ pc = "prompt"
    /\ ~stdinEOF
    /\ \E line \in Lines : input' = Trim(line \o <<"\n">>)
    /\ pc' = IF input' = <<>> THEN "prompt" ELSE "lex"
    /\ UNCHANGED <<stdinEOF, tokens, ast, parserPos, result, panic, failedIn>>

\* read_line returns Ok(0) at end of input: the line is empty, main continues
ReadEOF ==
    /\ pc = "prompt"
    /\ stdinEOF' = TRUE
    /\ input' = Trim(<<>>)
    /\ pc' = IF input' = <<>> THEN "prompt" ELSE "lex"
    /\ UNCHANGED <<tokens, ast, parserPos, result, panic, failedIn>>

\* faulty variant of LexStep: a lexical error is reported and main prompts again
LexStepRecovering ==
    /\ pc = "lex"
    /\ LET r == GetTokens(input)
       IN  IF r.panic.kind # "none"
           THEN /\ pc' = "prompt"
                /\ input' = <<>>
                /\ UNCHANGED tokens
           ELSE /\ pc' = "parse"
                /\ tokens' = r.tokens
                /\ UNCHANGED input
    /\ UNCHANGED <<stdinEOF, ast, parserPos, result, panic, failedIn>>

\* let tokens = lexer.get_tokens(); println!("{:?}", tokens)
LexStep ==
    /\ pc = "lex"
    /\ LET r == GetTokens(input)
       IN  IF r.panic.kind # "none"
           THEN /\ pc' = "panicked"
                /\ panic' = r.panic
                /\ failedIn' = "lexer"
                /\ UNCHANGED tokens
           ELSE /\ pc' = "parse"
                /\ tokens' = r.tokens
                /\ UNCHANGED <<panic, failedIn>>
    /\ UNCHANGED <<stdinEOF, input, ast, parserPos, result>>

\* let ast = parser.parse(); println!("{:?}", ast)
ParseStep ==
    /\ pc = "parse"
    /\ LET r == Parse(tokens)
       IN  /\ parserPos' = r.position
           /\ IF r.panic.kind # "none"
              THEN /\ pc' = "panicked"
                   /\ panic' = r.panic
                   /\ failedIn' = "parser"
                   /\ UNCHANGED ast
              ELSE /\ pc' = "interpret"
                   /\ ast' = r.node
                   /\ UNCHANGED <<panic, failedIn>>
    /\ UNCHANGED <<stdinEOF, input, tokens, result>>

\* let result = interpreter.interpret(&ast)
InterpretStep ==
    /\ pc = "interpret"
    /\ LET r == Interpret(ast)
       IN  IF r.panic.kind # "none"
           THEN /\ pc' = "panicked"
                /\ panic' = r.panic
                /\ failedIn' = "interpreter"
                /\ UNCHANGED result
           ELSE /\ pc' = "print"
                /\ result' = r.value
                /\ UNCHANGED <<panic, failedIn>>
    /\ UNCHANGED <<stdinEOF, input, tokens, ast, parserPos>>

\* println!("Result: {}", result), the end of the loop body: the line's
\* lexer, parser, AST and result are dropped
PrintStep ==
    /\ pc = "print"
    /\ pc' = "prompt"
    /\ input' = <<>>
    /\ tokens' = <<>>
    /\ ast' = NoNode
    /\ parserPos' = 0
    /\ result' = NoResult
    /\ UNCHANGED <<stdinEOF, panic, failedIn>>

Next ==
    \/ ReadLine
    \/ ReadEOF
    \/ LexStep
    \/ ParseStep
    \/ InterpretStep
    \/ PrintStep

Spec == Init /\ [][Next]_vars

(***************************************************************************)
(* Properties.                                                             *)
(***************************************************************************)
\* get_tokens has returned for the current line
TokensReturned ==
    \/ pc \in {"parse", "interpret", "print"}
    \/ pc = "panicked" /\ failedIn # "lexer"

\* parse has returned or panicked for the current line
AfterParse ==
    \/ pc \in {"interpret", "print"}
    \/ pc = "panicked" /\ failedIn # "lexer"

AdditiveOps == {Plus, Minus}
MultiplicativeOps == {Mul, Div}
ArithmeticOps == AdditiveOps \cup MultiplicativeOps
IsNumberToken(t) == t.kind = "Number"

\* C1: whenever get_tokens returns, the token sequence ends with EOF and
\* holds no EOF at any earlier index.
C1_ExactlyOneEOFLast ==
    TokensReturned =>
        /\ Len(tokens) >= 1
        /\ tokens[Len(tokens)] = EOF
        /\ \A i \in 1..(Len(tokens) - 1) : tokens[i] # EOF

C1_Witness ==
    /\ pc = "parse"
    /\ Len(tokens) >= 4
    /\ tokens[Len(tokens)] = EOF

\* C2: multiplicative operators bind tighter than additive ones.  The tokens
\* of 'a o1 b o2 c', o1 additive and o2 multiplicative, parse to
\* BinaryOp(a, o1, BinaryOp(b, o2, c)); those of '(a o1 b) o2 c' parse to
\* BinaryOp(BinaryOp(a, o1, b), o2, c); '3 plus 4 mul 2' evaluates to 11 and
\* '(3 plus 4) mul 2' to 14.
C2_MultiplicativeBindsTighter ==
    /\ ( /\ AfterParse
         /\ Len(tokens) = 6
         /\ IsNumberToken(tokens[1]) /\ tokens[2] \in AdditiveOps
         /\ IsNumberToken(tokens[3]) /\ tokens[4] \in MultiplicativeOps
         /\ IsNumberToken(tokens[5]) /\ tokens[6] = EOF )
       => /\ pc # "panicked"
          /\ ast = BinaryOp(NumberNode(tokens[1].value), tokens[2],
                            BinaryOp(NumberNode(tokens[3].value), tokens[4],
                                     NumberNode(tokens[5].value)))
    /\ ( /\ AfterParse
         /\ Len(tokens) = 8
         /\ tokens[1] = LParen
         /\ IsNumberToken(tokens[2]) /\ tokens[3] \in AdditiveOps
         /\ IsNumberToken(tokens[4]) /\ tokens[5] = RParen
         /\ tokens[6] \in MultiplicativeOps
         /\ IsNumberToken(tokens[7]) /\ tokens[8] = EOF )
       => /\ pc # "panicked"
          /\ ast = BinaryOp(BinaryOp(NumberNode(tokens[2].value), tokens[3],
                                     NumberNode(tokens[4].value)),
                            tokens[6], NumberNode(tokens[7].value))
    /\ ( /\ pc = "print"
         /\ tokens = <<Number(Num(3)), Plus, Number(Num(4)), Mul,
                       Number(Num(2)), EOF>> )
       => result = Num(11)
    /\ ( /\ pc = "print"
         /\ tokens = <<LParen, Number(Num(3)), Plus, Number(Num(4)), RParen,
                       Mul, Number(Num(2)), EOF>> )
       => result = Num(14)

C2_Witness ==
    /\ pc = "print"
    /\ tokens = <<LParen, Number(Num(3)), Plus, Number(Num(4)), RParen,
                  Mul, Number(Num(2)), EOF>>
    /\ result = Num(14)

\* x1 op1 x2 ... xn EOF with every operator in ops, n >= 2
IsChainOver(ts, ops) ==
    /\ Len(ts) >= 4
    /\ Len(ts) % 2 = 0
    /\ ts[Len(ts)] = EOF
    /\ \A i \in 1..(Len(ts) - 1) :
          IF i % 2 = 1 THEN IsNumberToken(ts[i]) ELSE ts[i] \in ops

RECURSIVE LeftLeaning(_, _)
\* the left-leaning tree over the first k operands of the chain ts
LeftLeaning(ts, k) ==
    IF k = 1 THEN NumberNode(ts[1].value)
    ELSE BinaryOp(LeftLeaning(ts, k - 1), ts[2 * k - 2],
                  NumberNode(ts[2 * k - 1].value))

\* C3: operators of one precedence level are left-associative.  A chain whose
\* operators are all additive, or all multiplicative, parses to the
\* left-leaning tree; '10 minus 2 minus 3' evaluates to (10-2)-3 = 5.
C3_LeftAssociative ==
    /\ ( /\ AfterParse
         /\ \/ IsChainOver(tokens, AdditiveOps)
            \/ IsChainOver(tokens, MultiplicativeOps) )
       => /\ pc # "panicked"
          /\ ast = LeftLeaning(tokens, Len(tokens) \div 2)
    /\ ( /\ pc = "print"
         /\ tokens = <<Number(Num(10)), Minus, Number(Num(2)), Minus,
                       Number(Num(3)), EOF>> )
       => result = Num(5)

C3_Witness ==
    /\ pc = "print"
    /\ tokens = <<Number(Num(10)), Minus, Number(Num(2)), Minus,
                  Number(Num(3)), EOF>>
    /\ ast = BinaryOp(BinaryOp(NumberNode(Num(10)), Minus, NumberNode(Num(2))),
                      Minus, NumberNode(Num(3)))
    /\ result = Num(5)

RECURSIVE WellFormed(_)
\* every BinaryOp node, at any depth, carries an arithmetic operator
WellFormed(node) ==
    \/ node.tag = "Number"
    \/ /\ node.tag = "BinaryOp"
       /\ node.op \in ArithmeticOps
       /\ WellFormed(node.left)
       /\ WellFormed(node.right)

\* C4: evaluation never fails on an AST parse returned.  Every BinaryOp node
\* carries Plus, Minus, Mul or Div; interpret never reaches unreachable!();
\* a division by zero yields a value: '3 div 0' yields +infinity.
C4_EvaluationTotal ==
    /\ pc \in {"interpret", "print"} => WellFormed(ast)
    /\ failedIn # "interpreter"
    /\ panic.kind # "Unreachable"
    /\ pc = "print" => result.k \in {"fin", "inf", "nan"}
    /\ ( /\ pc = "print"
         /\ tokens = <<Number(Num(3)), Div, Number(Num(0)), EOF>> )
       => result = Inf(FALSE)

C4_Witness ==
    /\ pc = "print"
    /\ ast.tag = "BinaryOp"
    /\ ast.op = Div
    /\ ast.right = NumberNode(Num(0))
    /\ result.k = "inf"

\* C5: the lexer fails only with 'unexpected character', 'unknown identifier'
\* or a malformed numeric literal, also on lines with multi-byte characters.
C5_OnlyLexicalErrors ==
    (pc = "panicked" /\ failedIn = "lexer") =>
        panic.kind \in
            {"UnexpectedCharacter", "UnexpectedIdentifier", "ParseFloatError"}

\* the parser calls primary with its cursor at position i: on the first i
\* tokens alone it asks for a primary where the input ends
ReachesPrimaryAt(ts, i) ==
    LET p == Parse(Append(SubSeq(ts, 1, i), EOF))
    IN  p.panic = UnexpectedToken(EOF) /\ p.position = i

\* C6: a parenthesized expression without its closing parenthesis is a syntax
\* error reported by expect.  When the parser has consumed an LParen and a
\* complete inner expression and the current token is not RParen, parse
\* panics with "Expected RParen, found <that token>", returns no AST and has
\* not consumed that token.
C6_MissingRParenIsExpectError ==
    AfterParse =>
        \A i \in 1..(Len(tokens) - 1) :
            LET e == Expression(tokens, i)
            IN  ( /\ tokens[i] = LParen
                  /\ ReachesPrimaryAt(tokens, i - 1)
                  /\ e.panic.kind = "none"
                  /\ CurrentToken(tokens, e.position) # RParen )
                => /\ pc = "panicked"
                   /\ failedIn = "parser"
                   /\ panic = ExpectedFound(RParen,
                                            CurrentToken(tokens, e.position))
                   /\ ast = NoNode
                   /\ parserPos = e.position

C6_Witness ==
    /\ pc = "panicked"
    /\ tokens = <<LParen, Number(Num(3)), Plus, Number(Num(3)), EOF>>
    /\ panic = ExpectedFound(RParen, EOF)
    /\ parserPos = 4

\* C7: a lexical or syntax error aborts the whole process.  A failing
\* get_tokens or parse takes main to the panicked state; there the line has
\* no result, a lexical error has left no tokens and no AST, and nothing
\* ever changes again: no later line is read.
C7_ErrorAbortsProcess ==
    [][ /\ (pc = "lex" /\ GetTokens(input).panic.kind # "none")
           => pc' = "panicked" /\ tokens' = <<>>
        /\ (pc = "parse" /\ Parse(tokens).panic.kind # "none")
           => pc' = "panicked"
        /\ pc' = "panicked" => result' = NoResult /\ ast' = NoNode
        /\ pc = "panicked" => UNCHANGED vars ]_vars

C7_Witness ==
    /\ pc = "panicked"
    /\ failedIn = "lexer"
    /\ panic.kind = "UnexpectedIdentifier"

\* C8: once read_line reports end of input, the loop of main stops: main is
\* never at the prompt again.
C8_LoopStopsAtEOF == stdinEOF => pc # "prompt"

\* C9: parse does not require EOF after the expression.  When the first k
\* tokens are a complete expression (they parse, followed by EOF, to the
\* end) and the next token is not an operator to fold in, parse returns the
\* AST of those k tokens and leaves the rest unconsumed.
C9_TrailingTokensIgnored ==
    AfterParse =>
        \A k \in 1..(Len(tokens) - 1) :
            LET p == Parse(Append(SubSeq(tokens, 1, k), EOF))
            IN  ( /\ p.panic.kind = "none"
                  /\ p.position = k
                  /\ tokens[k + 1] \notin ArithmeticOps )
                => /\ pc # "panicked"
                   /\ ast = p.node
                   /\ parserPos = k

C9_Witness ==
    /\ pc = "interpret"
    /\ tokens = <<Number(Num(3)), Plus, Number(Num(0)), RParen, EOF>>
    /\ ast = BinaryOp(NumberNode(Num(3)), Plus, NumberNode(Num(0)))
    /\ parserPos = 3

\* C10: the parser cursor never leaves the token sequence.  No read of
\* current_token is out of bounds, and when parse returns or panics the
\* position is still below tokens.len(): EOF is never consumed.
C10_ParserCursorInBounds ==
    /\ panic.kind # "IndexOutOfBounds"
    /\ AfterParse => parserPos < Len(tokens)

C10_Witness ==
    /\ pc = "panicked"
    /\ failedIn = "parser"
    /\ parserPos = Len(tokens) - 1
    /\ Len(tokens) >= 4

=============================================================================
